---- MODULE Spec2Model ----
(***************************************************************************)
(* DepSimplify: the conflict detector (DependencyResolver.find_conflicts),  *)
(* the compatible-version selector (get_compatible_versions) and the        *)
(* SQLite result cache (DependencyCache), the rewriting of requirements.txt  *)
(* (DependencyParser.update_requirements) and the resolve command of        *)
(* cli.py, as state machines.                                               *)
(*                                                                          *)
(* Representation of the program's values:                                  *)
(*  - a version string is a sequence of integers, one per dot-separated     *)
(*    segment ("1.0.0" is <<1,0,0>>); a negative segment stands for a       *)
(*    segment packaging cannot parse;                                       *)
(*  - a specifier string is a record [op, version] (">=2" is               *)
(*    [op |-> ">=", version |-> <<2>>]); an op outside SpecifierOps is a    *)
(*    string SpecifierSet rejects;                                          *)
(*  - a Python str is Str(s), a Python list is List(l), so that isinstance  *)
(*    and truthiness are computed and not assumed;                          *)
(*  - a dict whose iteration order the code depends on is a sequence of    *)
(*    <<key, value>> pairs; the others are functions;                       *)
(*  - a line of requirements.txt is a record of its kind, the name and      *)
(*    specifier of its requirement, and whether whitespace surrounds it.    *)
(***************************************************************************)
EXTENDS Integers, Sequences, FiniteSets, TLC

VARIABLES
    index,              \* the package index: name -> what GET pypi_url answers
    dependencies,       \* find_conflicts: the request, name -> constraint list
    order,              \* find_conflicts: iteration order of dependencies.items()
    conflicts,          \* find_conflicts: the report being built
    dep_graph,          \* find_conflicts: insertion-ordered dict of pass 1
    i,                  \* position of the outer loop of the running pass
    j,                  \* position of the inner loop of pass 2
    package,            \* get_compatible_versions: argument
    conflict,           \* get_compatible_versions: argument
    req_arg,            \* DependencyCache.*_conflicts: argument dependencies
    report_arg,         \* DependencyCache.store_conflicts: argument conflicts
    pc,                 \* position of the running call
    result,             \* outcome of the last finished call
    fetches,            \* requests.get calls of the running/last call, per package
    cache_calls,        \* DependencyCache method calls of the running/last call
    cache_ready,        \* the tables of cache.db exist
    conflicts_table,    \* table conflicts: dependencies_key -> row
    versions_table,     \* table compatible_versions: conflict_key -> row
    last_store,         \* ghost: the most recent store_conflicts call
    now,                \* wall clock, in hours
    seen,               \* ghost: first outcome of each operation per cache condition
    requirements_file,  \* requirements.txt: whether it exists, and its lines
    resolutions_table,  \* table resolutions: package -> row
    resolved_deps,      \* cli.resolve: the versions chosen so far
    todo,               \* cli.resolve: items of conflicts.items() still to visit
    cmd,                \* position of the running command
    lines,              \* update_requirements: what f.readlines() returned
    snapshot            \* ghost: the file and the resolutions when resolve began

vars == <<index, dependencies, order, conflicts, dep_graph, i, j, package,
          conflict, req_arg, report_arg, pc, result, fetches, cache_calls,
          cache_ready, conflicts_table, versions_table, last_store, now, seen,
          requirements_file, resolutions_table, resolved_deps, todo, cmd, lines,
          snapshot>>

\* what only the commands of cli.py and the resolutions table touch
cli == <<requirements_file, resolutions_table, resolved_deps, todo, cmd, lines,
        snapshot>>

-----------------------------------------------------------------------------
(* Python values *)

Str(s) == [type |-> "str", val |-> s]

List(l) == [type |-> "list", val |-> l]

\* bool(v) for a str or list value
Truthy(v) == IF v.type = "str" THEN v.val # "" ELSE v.val # <<>>

Range(s) == {s[k] : k \in DOMAIN s}

-----------------------------------------------------------------------------
(* packaging.version / packaging.specifiers *)

\* packaging.version.parse succeeds
IsValidVersion(v) == Len(v) > 0 /\ \A k \in DOMAIN v : v[k] >= 0

Seg(v, k) == IF k <= Len(v) THEN v[k] ELSE 0

MaxLen(u, v) == IF Len(u) >= Len(v) THEN Len(u) ELSE Len(v)

\* Version.__eq__: release segments compared with trailing zeros padded
VersionEq(u, v) == \A k \in 1..MaxLen(u, v) : Seg(u, k) = Seg(v, k)

\* Version.__lt__
VersionLt(u, v) ==
    \E k \in 1..MaxLen(u, v) :
        /\ Seg(u, k) < Seg(v, k)
        /\ \A m \in 1..(k - 1) : Seg(u, m) = Seg(v, m)

SpecifierOps == {">=", "<=", ">", "<", "==", "!="}

\* Specifier(s) parses
IsValidSpecifier(s) == s.op \in SpecifierOps /\ IsValidVersion(s.version)

\* mutant: the strict comparisons are taken as inclusive and conversely
SpecifierContains_inclusive(s, v) ==
    CASE s.op = ">=" -> VersionLt(s.version, v)
      [] s.op = "<=" -> VersionLt(v, s.version)
      [] s.op = ">"  -> ~VersionLt(v, s.version)
      [] s.op = "<"  -> ~VersionLt(s.version, v)
      [] s.op = "==" -> VersionEq(v, s.version)
      [] s.op = "!=" -> ~VersionEq(v, s.version)

\* Specifier.contains for a parsed version
SpecifierContains(s, v) ==
    CASE s.op = ">=" -> ~VersionLt(v, s.version)
      [] s.op = "<=" -> ~VersionLt(s.version, v)
      [] s.op = ">"  -> VersionLt(s.version, v)
      [] s.op = "<"  -> VersionLt(v, s.version)
      [] s.op = "==" -> VersionEq(v, s.version)
      [] s.op = "!=" -> ~VersionEq(v, s.version)

\* DependencyResolver._check_version_compatibility; versions is the set of
\* keys of releases, specs a sequence of specifiers
check_version_compatibility(versions, specs) ==
    IF versions = {} \/ specs = <<>> THEN {}
    ELSE IF \E k \in DOMAIN specs : ~IsValidSpecifier(specs[k]) THEN {}
    ELSE {v \in versions : /\ v # <<>>
                           /\ IsValidVersion(v)
                           /\ \A k \in DOMAIN specs : SpecifierContains(specs[k], v)}

-----------------------------------------------------------------------------
(* The package index *)

Missing == [status |-> "error", releases |-> {}, requires_dist |-> <<>>]

Published(releases, requires_dist) ==
    [status |-> "ok", releases |-> releases, requires_dist |-> requires_dist]

\* str(e) of the DependencyError of _get_package_metadata
FetchError(pkg) == Str(<<"Failed to fetch metadata for", pkg>>)

\* mutant: raise_for_status is left out, an error page is taken for metadata
get_package_metadata_unchecked(idx, pkg) ==
    IF pkg = "" THEN [ok |-> FALSE, error |-> Str(<<"Package name cannot be empty">>)]
    ELSE [ok |-> TRUE, releases |-> idx[pkg].releases,
          requires_dist |-> idx[pkg].requires_dist]

\* DependencyResolver._get_package_metadata: the data, or the error raised
get_package_metadata(idx, pkg) ==
    IF pkg = "" THEN [ok |-> FALSE, error |-> Str(<<"Package name cannot be empty">>)]
    ELSE IF idx[pkg].status # "ok" THEN [ok |-> FALSE, error |-> FetchError(pkg)]
    ELSE [ok |-> TRUE, releases |-> idx[pkg].releases,
          requires_dist |-> idx[pkg].requires_dist]

\* dict[k] = v on an insertion-ordered dict (a sequence of <<key, value>>)
DictPut(d, k, v) ==
    IF \E n \in DOMAIN d : d[n][1] = k
    THEN [n \in DOMAIN d |-> IF d[n][1] = k THEN <<k, v>> ELSE d[n]]
    ELSE Append(d, <<k, v>>)

DictKeys(d) == {d[n][1] : n \in DOMAIN d}

DictGet(d, k) == d[CHOOSE n \in DOMAIN d : d[n][1] = k][2]

\* req_str.split(';')[0].strip(): the marker is dropped
StripMarker(req) == [req EXCEPT !.marker = ""]

\* 'extra ==' in req_str
HasExtraText(req) == req.marker = "extra"

RECURSIVE ParseRequiresDist(_, _)
\* the loop of _get_package_dependencies over requires_dist[n..]
ParseRequiresDist(reqs, deps) ==
    IF reqs = <<>> THEN deps
    ELSE LET req_str == IF Head(reqs).marker # "" THEN StripMarker(Head(reqs))
                        ELSE Head(reqs)
         IN  IF HasExtraText(req_str) THEN ParseRequiresDist(Tail(reqs), deps)
             ELSE IF req_str.specifier # <<>>
                  THEN ParseRequiresDist(Tail(reqs),
                           DictPut(deps, req_str.name, req_str.specifier))
                  ELSE ParseRequiresDist(Tail(reqs), deps)

\* DependencyResolver._get_package_dependencies
get_package_dependencies(idx, pkg) ==
    IF pkg = "" THEN <<>>
    ELSE LET pkg_data == get_package_metadata(idx, pkg)
         IN  IF ~pkg_data.ok THEN <<>>
             ELSE ParseRequiresDist(pkg_data.requires_dist, <<>>)

-----------------------------------------------------------------------------
(* json and DependencyCache *)

\* the order sort_keys=True gives the keys that occur
KeyOrder == <<"a", "b", "c", "conflict", "direct", "error", "package">>

Rank(k) == CHOOSE n \in DOMAIN KeyOrder : KeyOrder[n] = k

RECURSIVE SortKeys(_)
SortKeys(S) ==
    IF S = {} THEN <<>>
    ELSE LET m == CHOOSE k \in S : \A o \in S : Rank(k) <= Rank(o)
         IN  <<m>> \o SortKeys(S \ {m})

\* json.dumps of a dict with str keys: the text, as its sequence of members
json_dumps(d) ==
    LET keys == SortKeys(DOMAIN d)
    IN  [n \in DOMAIN keys |-> <<keys[n], d[keys[n]]>>]

\* json.loads of such a text: a later member replaces an earlier one
json_loads(s) ==
    [k \in {s[n][1] : n \in DOMAIN s} |->
        s[CHOOSE n \in DOMAIN s :
            s[n][1] = k /\ \A m \in DOMAIN s : s[m][1] = k => m <= n][2]]

\* json.dumps(conflicts): a dict of dicts
json_dumps_report(r) == json_dumps([k \in DOMAIN r |-> json_dumps(r[k])])

json_loads_report(s) ==
    LET outer == json_loads(s) IN [k \in DOMAIN outer |-> json_loads(outer[k])]

\* a stored text json.loads rejects with JSONDecodeError, for either column
UndecodableDict == <<<<"{">>>>

UndecodableList == [garbage |-> "["]

\* json.loads(text) does not raise
Decodable(text) == \A n \in DOMAIN text : Len(text[n]) = 2

DecodableList(text) == "array" \in DOMAIN text

\* timedelta(days=1), in hours
CacheExpiry == 24

\* mutant: a row never expires
is_cache_valid_always(last_updated, t) == TRUE

\* DependencyCache._is_cache_valid
is_cache_valid(last_updated, t) == t - last_updated <= CacheExpiry

Absent == [found |-> FALSE]

Found(v) == [found |-> TRUE, value |-> v]

\* mutant: the sqlite3.Error of a missing table is answered as if it were a row
cache_get_conflicts_unguarded(ready, table, deps, t) ==
    IF DOMAIN deps = {} THEN Absent
    ELSE IF ~ready
    THEN Found([p \in DOMAIN deps |-> [error |-> Str(<<"no such table: conflicts">>)]])
    ELSE IF json_dumps(deps) \in DOMAIN table
            /\ is_cache_valid(table[json_dumps(deps)].last_updated, t)
    THEN Found(json_loads_report(table[json_dumps(deps)].conflicts_data))
    ELSE Absent

\* DependencyCache.get_conflicts: None, or the decoded row
cache_get_conflicts(ready, table, deps, t) ==
    IF DOMAIN deps = {} THEN Absent
    ELSE LET deps_key == json_dumps(deps)
         IN  IF ~ready THEN Absent                \* sqlite3.Error: no such table
             ELSE IF deps_key \in DOMAIN table
                     /\ is_cache_valid(table[deps_key].last_updated, t)
                     /\ Decodable(table[deps_key].conflicts_data)
                  THEN Found(json_loads_report(table[deps_key].conflicts_data))
                  ELSE Absent                     \* no row, expired, or JSONDecodeError

\* mutant: INSERT without OR REPLACE, the row of an earlier store stays
cache_store_conflicts_insert(ready, table, deps, report, t) ==
    IF DOMAIN deps = {} \/ DOMAIN report = {} THEN table
    ELSE IF ~ready THEN table
    ELSE IF json_dumps(deps) \in DOMAIN table THEN table
    ELSE [k \in DOMAIN table \cup {json_dumps(deps)} |->
             IF k = json_dumps(deps)
             THEN [conflicts_data |-> json_dumps_report(report), last_updated |-> t]
             ELSE table[k]]

\* DependencyCache.store_conflicts: the table afterwards
cache_store_conflicts(ready, table, deps, report, t) ==
    IF DOMAIN deps = {} \/ DOMAIN report = {} THEN table
    ELSE IF ~ready THEN table                     \* sqlite3.Error swallowed
    ELSE LET deps_key == json_dumps(deps)
             row == [conflicts_data |-> json_dumps_report(report),
                     last_updated |-> t]
         IN  [k \in DOMAIN table \cup {deps_key} |->
                 IF k = deps_key THEN row ELSE table[k]]

\* json.dumps / json.loads of a list of strings
json_dumps_list(l) == [array |-> l]

json_loads_list(text) == text.array

\* the key of a compatible_versions row
conflict_key(pkg, c) ==
    json_dumps([k \in {"package", "conflict"} |->
                   IF k = "package" THEN Str(pkg) ELSE json_dumps(c)])

\* DependencyCache.get_compatible_versions: None, or the decoded row
cache_get_compatible_versions(ready, table, pkg, c, t) ==
    IF pkg = "" \/ DOMAIN c = {} THEN Absent
    ELSE IF ~ready THEN Absent                    \* sqlite3.Error: no such table
    ELSE IF conflict_key(pkg, c) \in DOMAIN table
            /\ is_cache_valid(table[conflict_key(pkg, c)].last_updated, t)
            /\ DecodableList(table[conflict_key(pkg, c)].versions)
         THEN Found(json_loads_list(table[conflict_key(pkg, c)].versions))
         ELSE Absent                              \* no row, expired, or JSONDecodeError

\* DependencyCache.store_compatible_versions: the table afterwards
cache_store_compatible_versions(ready, table, pkg, c, versions, t) ==
    IF pkg = "" \/ DOMAIN c = {} \/ versions = <<>> THEN table
    ELSE IF ~ready THEN table                     \* sqlite3.Error swallowed
    ELSE LET row == [versions |-> json_dumps_list(versions), last_updated |-> t]
         IN  [k \in DOMAIN table \cup {conflict_key(pkg, c)} |->
                 IF k = conflict_key(pkg, c) THEN row ELSE table[k]]

\* DependencyCache.store_resolutions: the table afterwards
cache_store_resolutions(ready, table, resolved, t) ==
    IF DOMAIN resolved = {} THEN table
    ELSE IF ~ready THEN table                     \* sqlite3.Error swallowed
    ELSE LET written == {p \in DOMAIN resolved : p # "" /\ resolved[p] # <<>>}
         IN  [p \in DOMAIN table \cup written |->
                 IF p \in written
                 THEN [version |-> resolved[p], last_updated |-> t]
                 ELSE table[p]]

\* DependencyCache.get_resolutions: the dict of the rows younger than the expiry
cache_get_resolutions(ready, table, t) ==
    IF ~ready THEN <<>>                           \* sqlite3.Error: no such table
    ELSE LET fresh == {p \in DOMAIN table :
                          /\ table[p].last_updated > t - CacheExpiry
                          /\ p # ""
                          /\ table[p].version # <<>>}
         IN  [p \in fresh |-> table[p].version]

-----------------------------------------------------------------------------
(* Outcomes of a call *)

NoResult == [op |-> "none"]

Return(op, v) == [op |-> op, kind |-> "return", value |-> v]

Raise(op, msg) == [op |-> op, kind |-> "raise", error |-> msg]

EmptyDict == <<>>

PackageNames == {"a", "b", "c"}

NoFetches == [p \in PackageNames |-> 0]

\* how the cache met the call: no storage, no valid row, or a valid row
CacheCondition(hit) ==
    IF ~cache_ready THEN "unavailable" ELSE IF hit THEN "hit" ELSE "miss"

NothingSeen ==
    [op \in {"find_conflicts", "get_compatible_versions"} |->
        [c \in {"unavailable", "miss", "hit"} |-> NoResult]]

\* ghost: remember the first outcome r of an operation under condition c
Observe(s, r, c) ==
    IF r.op \in DOMAIN s /\ s[r.op][c].op = "none"
    THEN [s EXCEPT ![r.op][c] = r]
    ELSE s

-----------------------------------------------------------------------------
(* DependencyResolver.find_conflicts *)

\* mutant: the report is restarted at every assignment
SetReport_reset(c, name, entry) == [k \in {name} |-> entry]

\* conflicts[name] = entry
SetReport(c, name, entry) ==
    [k \in DOMAIN c \cup {name} |-> IF k = name THEN entry ELSE c[k]]

\* mutant: last writer wins on conflicts[name]
SetEntry_overwrite(c, name, key, v) == SetReport(c, name, [k \in {key} |-> v])

\* if name not in conflicts: conflicts[name] = {} ; conflicts[name][key] = v
SetEntry(c, name, key, v) ==
    LET old == IF name \in DOMAIN c THEN c[name] ELSE EmptyDict
    IN  SetReport(c, name,
            [k \in DOMAIN old \cup {key} |-> IF k = key THEN v ELSE old[k]])

\* the text 'No releases available' where the code puts it in a constraint list
NoReleasesText == [op |-> "No releases available", version |-> <<>>]

\* lines 100-110: the guard on the request and the cache lookup
FindConflictsCall ==
    /\ pc = "idle"
    /\ conflicts' = EmptyDict
    /\ dep_graph' = <<>>
    /\ fetches' = NoFetches
    /\ i' = 1
    /\ j' = 1
    /\ IF DOMAIN dependencies = {}
       THEN /\ result' = Return("find_conflicts", EmptyDict)
            /\ cache_calls' = 0
            /\ pc' = "idle"
       ELSE LET cached_conflicts ==
                    cache_get_conflicts(cache_ready, conflicts_table, dependencies, now)
            IN  /\ cache_calls' = 1
                /\ IF cached_conflicts.found /\ DOMAIN cached_conflicts.value # {}
                   THEN /\ result' = Return("find_conflicts", cached_conflicts.value)
                        /\ pc' = "idle"
                   ELSE /\ result' = NoResult
                        /\ pc' = "fc_pass1"
    /\ seen' = Observe(seen, result',
                       CacheCondition(result'.op # "none" /\ cache_calls' = 1))
    /\ UNCHANGED <<cli, index, dependencies, order, package, conflict, req_arg,
                   report_arg, cache_ready, conflicts_table, versions_table,
                   last_store, now>>

\* lines 115-153: one iteration of the first pass
Pass1Step ==
    /\ pc = "fc_pass1"
    /\ i <= Len(order)
    /\ LET pkg_name == order[i]
           specs == dependencies[pkg_name]
           pkg_data == get_package_metadata(index, pkg_name)
           compatible == check_version_compatibility(pkg_data.releases, specs)
           trans_deps == get_package_dependencies(index, pkg_name)
       IN  IF pkg_name = "" \/ specs = <<>>
           THEN UNCHANGED <<conflicts, dep_graph, fetches>>
           ELSE IF ~pkg_data.ok
           THEN /\ conflicts' = SetReport(conflicts, pkg_name, [error |-> pkg_data.error])
                /\ fetches' = [fetches EXCEPT ![pkg_name] = @ + 1]
                /\ UNCHANGED dep_graph
           ELSE IF pkg_data.releases = {}
           THEN /\ conflicts' = SetReport(conflicts, pkg_name,
                                    [error |-> Str(<<"No releases available">>)])
                /\ fetches' = [fetches EXCEPT ![pkg_name] = @ + 1]
                /\ UNCHANGED dep_graph
           ELSE IF compatible = {}
           THEN /\ conflicts' = SetReport(conflicts, pkg_name, [direct |-> List(specs)])
                /\ fetches' = [fetches EXCEPT ![pkg_name] = @ + 1]
                /\ UNCHANGED dep_graph
           ELSE /\ fetches' = [fetches EXCEPT ![pkg_name] = @ + 2]
                /\ dep_graph' = IF trans_deps # <<>>
                                THEN DictPut(dep_graph, pkg_name,
                                         [specs |-> specs, requires |-> trans_deps])
                                ELSE dep_graph
                /\ UNCHANGED conflicts
    /\ i' = i + 1
    /\ UNCHANGED <<cli, seen, index, dependencies, order, j, package, conflict, req_arg,
                   report_arg, pc, result, cache_calls, cache_ready,
                   conflicts_table, versions_table, last_store, now>>

\* line 155-157: the first pass is over
Pass1Done ==
    /\ pc = "fc_pass1"
    /\ i > Len(order)
    /\ pc' = "fc_pass2"
    /\ i' = 1
    /\ j' = 1
    /\ UNCHANGED <<cli, seen, index, dependencies, order, conflicts, dep_graph, package,
                   conflict, req_arg, report_arg, result, fetches, cache_calls,
                   cache_ready, conflicts_table, versions_table, last_store, now>>

\* lines 165-217: one iteration of the inner loop of the second pass
Pass2Step ==
    /\ pc = "fc_pass2"
    /\ i <= Len(dep_graph)
    /\ LET pkg_name == dep_graph[i][1]
           pkg_requires == dep_graph[i][2].requires
           dep_name == pkg_requires[j][1]
           dep_specs == pkg_requires[j][2]
           direct_specs == dependencies[dep_name]
           dep_data == get_package_metadata(index, dep_name)
           direct_compatible == check_version_compatibility(dep_data.releases, direct_specs)
           trans_compatible == check_version_compatibility(dep_data.releases, dep_specs)
       IN  /\ IF dep_name = "" \/ dep_specs = <<>>
              THEN UNCHANGED <<conflicts, fetches>>
              ELSE IF dep_name \notin DOMAIN dependencies
              THEN UNCHANGED <<conflicts, fetches>>
              ELSE IF direct_specs = <<>>
              THEN UNCHANGED <<conflicts, fetches>>
              ELSE /\ fetches' = [fetches EXCEPT ![dep_name] = @ + 1]
                   /\ IF ~dep_data.ok
                      THEN conflicts' = SetEntry(conflicts, dep_name, "error", dep_data.error)
                      ELSE IF dep_data.releases = {}
                      THEN conflicts' = SetEntry(conflicts, dep_name, pkg_name,
                                            List(<<NoReleasesText>>))
                      ELSE IF \/ direct_compatible = {}
                              \/ trans_compatible = {}
                              \/ direct_compatible \cap trans_compatible = {}
                      THEN conflicts' = SetEntry(conflicts, dep_name, pkg_name,
                                            List(dep_specs))
                      ELSE UNCHANGED conflicts
           /\ IF j < Len(pkg_requires)
              THEN i' = i /\ j' = j + 1
              ELSE i' = i + 1 /\ j' = 1
    /\ UNCHANGED <<cli, seen, index, dependencies, order, dep_graph, package, conflict,
                   req_arg, report_arg, pc, result, cache_calls, cache_ready,
                   conflicts_table, versions_table, last_store, now>>

\* lines 219-222: store the report when it is not empty, and return it
FindConflictsReturn ==
    /\ pc = "fc_pass2"
    /\ i > Len(dep_graph)
    /\ conflicts_table' =
           IF DOMAIN conflicts # {}
           THEN cache_store_conflicts(cache_ready, conflicts_table, dependencies,
                                      conflicts, now)
           ELSE conflicts_table
    /\ cache_calls' = IF DOMAIN conflicts # {} THEN cache_calls + 1 ELSE cache_calls
    /\ last_store' =
           IF DOMAIN conflicts # {}
           THEN [called |-> TRUE, req |-> dependencies, report |-> conflicts,
                 at |-> now, ready |-> cache_ready]
           ELSE last_store
    /\ result' = Return("find_conflicts", conflicts)
    /\ pc' = "idle"
    /\ seen' = Observe(seen, result', CacheCondition(FALSE))
    /\ UNCHANGED <<cli, index, dependencies, order, conflicts, dep_graph, i, j,
                   package, conflict, req_arg, report_arg, fetches, cache_ready,
                   versions_table, now>>

\* DependencyCache.initialize (cli init): CREATE TABLE IF NOT EXISTS
Initialize ==
    /\ pc = "idle"
    /\ ~cache_ready
    /\ cache_ready' = TRUE
    /\ UNCHANGED <<cli, seen, index, dependencies, order, conflicts, dep_graph, i, j,
                   package, conflict, req_arg, report_arg, pc, result, fetches,
                   cache_calls, conflicts_table, versions_table, last_store, now>>

-----------------------------------------------------------------------------
(* The conflict detector on a bounded family of indexes and requests *)

\* largest version number an index of the family publishes
MaxVersion == 2

GE(n) == [op |-> ">=", version |-> <<n>>]

LT(n) == [op |-> "<", version |-> <<n>>]

EQ(n) == [op |-> "==", version |-> <<n>>]

Req(name, specifier, marker) ==
    [name |-> name, specifier |-> specifier, marker |-> marker]

\* what a dependent package ("a", "b") declares on the leaf package "c"
RequiresChoices ==
    { <<>>,
      <<Req("c", <<GE(MaxVersion)>>, "")>>,
      <<Req("c", <<LT(MaxVersion)>>, "")>>,
      <<Req("c", <<LT(MaxVersion)>>, "extra")>>,
      <<Req("c", <<GE(MaxVersion)>>, "env"), Req("c", <<LT(MaxVersion)>>, "env")>> }

DependentEntries ==
    {Missing} \cup {Published(r, d) : r \in {{}, {<<1>>}}, d \in RequiresChoices}

LeafEntries ==
    {Missing} \cup {Published(r, <<>>) : r \in SUBSET {<<n>> : n \in 1..MaxVersion}}

Indexes ==
    {idx \in [PackageNames -> DependentEntries \cup LeafEntries] :
        /\ idx["a"] \in DependentEntries
        /\ idx["b"] \in DependentEntries
        /\ idx["c"] \in LeafEntries}

\* a request entry: absent, or a constraint list
NotRequested == <<[op |-> "absent", version |-> <<>>]>>

DependentSpecs == {NotRequested, <<>>, <<GE(1)>>, <<LT(1)>>}

LeafSpecs == {NotRequested, <<>>, <<GE(MaxVersion)>>, <<LT(MaxVersion)>>}

Requests ==
    UNION {{[p \in {q \in PackageNames : f[q] # NotRequested} |-> f[p]]} :
              f \in {g \in [PackageNames -> DependentSpecs \cup LeafSpecs] :
                        /\ g["a"] \in DependentSpecs
                        /\ g["b"] \in DependentSpecs
                        /\ g["c"] \in LeafSpecs}}

Reverse(s) == [n \in DOMAIN s |-> s[Len(s) + 1 - n]]

NoStore == [called |-> FALSE]

NoSnapshot == [taken |-> FALSE]

\* no requirements.txt in the working directory
NoFile == [exists |-> FALSE, lines |-> <<>>]

\* no call made, no cache.db
NoCall ==
    /\ conflicts = EmptyDict
    /\ dep_graph = <<>>
    /\ i = 1
    /\ j = 1
    /\ pc = "idle"
    /\ result = NoResult
    /\ fetches = NoFetches
    /\ cache_calls = 0
    /\ cache_ready = FALSE
    /\ conflicts_table = EmptyDict
    /\ versions_table = EmptyDict
    /\ last_store = NoStore
    /\ now = 0
    /\ seen = NothingSeen
    /\ resolutions_table = EmptyDict
    /\ todo = <<>>
    /\ cmd = "none"
    /\ lines = <<>>
    /\ snapshot = NoSnapshot

\* what the specifications of the resolver start from
Idle == NoCall /\ resolved_deps = EmptyDict

Init ==
    /\ index \in Indexes
    /\ dependencies \in Requests
    /\ order \in {SortKeys(DOMAIN dependencies), Reverse(SortKeys(DOMAIN dependencies))}
    /\ package = ""
    /\ conflict = EmptyDict
    /\ req_arg = EmptyDict
    /\ report_arg = EmptyDict
    /\ requirements_file = NoFile
    /\ Idle

Next ==
    \/ FindConflictsCall
    \/ Pass1Step
    \/ Pass1Done
    \/ Pass2Step
    \/ FindConflictsReturn
    \/ Initialize

Spec == Init /\ [][Next]_vars

-----------------------------------------------------------------------------
(* Properties of the conflict detector *)

\* the published versions that satisfy every constraint of specs
Satisfying(versions, specs) ==
    {v \in versions :
        /\ IsValidVersion(v)
        /\ \A k \in DOMAIN specs :
              /\ specs[k].op \in SpecifierOps
              /\ CASE specs[k].op = ">=" -> ~VersionLt(v, specs[k].version)
                   [] specs[k].op = "<=" -> ~VersionLt(specs[k].version, v)
                   [] specs[k].op = ">"  -> VersionLt(specs[k].version, v)
                   [] specs[k].op = "<"  -> VersionLt(v, specs[k].version)
                   [] specs[k].op = "==" -> VersionEq(v, specs[k].version)
                   [] specs[k].op = "!=" -> ~VersionEq(v, specs[k].version)}

Fetched(pkg) == index[pkg].status = "ok"

\* the requires_dist entries of P that put constraints on dep
EntriesOn(P, dep) ==
    {n \in DOMAIN index[P].requires_dist :
        /\ index[P].requires_dist[n].name = dep
        /\ index[P].requires_dist[n].specifier # <<>>}

\* the constraint list P's metadata declares for dep (the last entry counts)
DeclaredOn(P, dep) ==
    index[P].requires_dist[CHOOSE n \in EntriesOn(P, dep) :
                               \A m \in EntriesOn(P, dep) : m <= n].specifier

Returned == result.op = "find_conflicts" /\ result.kind = "return"

\* P declares constraints on dep that no published version of dep satisfies
\* together with the request's constraints on dep
Disjoint(P, dep) ==
    /\ Fetched(P)
    /\ EntriesOn(P, dep) # {}
    /\ dep \in DOMAIN dependencies
    /\ Satisfying(index[dep].releases, DeclaredOn(P, dep))
           \cap Satisfying(index[dep].releases, dependencies[dep]) = {}

HasCrossEntry(report, P, dep) ==
    /\ dep \in DOMAIN report
    /\ P \in DOMAIN report[dep]
    /\ report[dep][P] = List(DeclaredOn(P, dep))

\* pass 1 keeps P for the second pass
Retained(P) ==
    /\ P \in DOMAIN dependencies
    /\ dependencies[P] # <<>>
    /\ Fetched(P)
    /\ Satisfying(index[P].releases, dependencies[P]) # {}

\* the request constrains dep, and the index publishes versions of dep
Constrained(dep) ==
    /\ dep \in DOMAIN dependencies
    /\ dependencies[dep] # <<>>
    /\ Fetched(dep)
    /\ index[dep].releases # {}

DirectConflict(pkg) ==
    /\ pkg \in DOMAIN dependencies
    /\ Fetched(pkg)
    /\ index[pkg].releases # {}
    /\ Satisfying(index[pkg].releases, dependencies[pkg]) = {}

HasDirectEntry(report, pkg) ==
    /\ pkg \in DOMAIN report
    /\ "direct" \in DOMAIN report[pkg]
    /\ report[pkg]["direct"] = List(dependencies[pkg])

\* C2: a requested package that is fetched, publishes a version and has no
\* published version satisfying its constraints has conflicts[pkg]['direct']
\* equal to the request's constraints
C2_DirectConflictReported ==
    Returned =>
        \A pkg \in PackageNames :
            DirectConflict(pkg) => HasDirectEntry(result.value, pkg)

C2_Witness ==
    /\ Returned
    /\ \E pkg \in PackageNames :
          /\ DirectConflict(pkg)
          /\ result.value[pkg] = [direct |-> List(dependencies[pkg])]

\* the request has no conflict: every requested package is fetched and has a
\* version satisfying its own constraints, and every constraint a requested
\* package declares on a requested package leaves a common version
Compatible ==
    /\ \A pkg \in DOMAIN dependencies :
          /\ Fetched(pkg)
          /\ Satisfying(index[pkg].releases, dependencies[pkg]) # {}
    /\ \A P \in DOMAIN dependencies : \A dep \in DOMAIN dependencies :
          \A n \in EntriesOn(P, dep) :
              Satisfying(index[dep].releases, index[P].requires_dist[n].specifier)
                  \cap Satisfying(index[dep].releases, dependencies[dep]) # {}

C3_WitnessEmptyRequest ==
    Returned /\ DOMAIN dependencies = {} /\ result.value = EmptyDict

\* C4: find_conflicts returns, never raises; a package whose fetch failed
\* has the entry {error: message}, and every other requested package with a
\* direct conflict keeps its 'direct' entry in the same report
C4_FetchFailureIsolated ==
    result.op = "find_conflicts" =>
        /\ result.kind = "return"
        /\ \A pkg \in PackageNames :
              fetches[pkg] > 0 /\ ~Fetched(pkg) =>
                  /\ pkg \in DOMAIN result.value
                  /\ result.value[pkg] = [error |-> FetchError(pkg)]
                  /\ \A other \in PackageNames \ {pkg} :
                        DirectConflict(other) => HasDirectEntry(result.value, other)

C4_Witness ==
    /\ Returned
    /\ \E pkg \in PackageNames : \E other \in PackageNames \ {pkg} :
          /\ fetches[pkg] > 1
          /\ ~Fetched(pkg)
          /\ result.value[pkg] = [error |-> FetchError(pkg)]
          /\ DirectConflict(other)
          /\ HasDirectEntry(result.value, other)

-----------------------------------------------------------------------------
(* DependencyResolver.get_compatible_versions *)

\* the number of versions offered, line 273
MaxReturned == 5

\* mutant: an empty conflict record is let through
validate_arguments_lenient(pkg, c) ==
    IF pkg = "" THEN Str(<<"Package name cannot be empty">>) ELSE Str("")

\* lines 229-233: the error raised for the arguments, Str("") when none is
validate_arguments(pkg, c) ==
    IF pkg = "" THEN Str(<<"Package name cannot be empty">>)
    ELSE IF DOMAIN c = {} THEN Str(<<"Invalid conflict data">>)
    ELSE Str("")

\* lines 237-238: the entries with a truthy key and a truthy value
json_safe_conflict(c) == [k \in {q \in DOMAIN c : q # "" /\ Truthy(c[q])} |-> c[k]]

\* bool(spec) for a specifier string
SpecTruthy(spec) == spec.op # ""

\* mutant: the empty strings of a constraint list are kept
KeepTruthy_all(l) == l

\* (spec for spec in spec_list if spec)
KeepTruthy(l) == SelectSeq(l, SpecTruthy)

RECURSIVE CollectSpecs(_, _)
\* lines 259-262 over the values of the keys that remain
CollectSpecs(c, keys) ==
    IF keys = <<>> THEN <<>>
    ELSE LET spec_list == c[Head(keys)]
         IN  (IF spec_list.type = "list" THEN KeepTruthy(spec_list.val) ELSE <<>>)
                 \o CollectSpecs(c, Tail(keys))

\* mutant: oldest first
Newest_ascending(S) == {v \in S : \A o \in S : ~VersionLt(o, v)}

\* the elements sorted(..., key=parse, reverse=True) may put first
Newest(S) == {v \in S : \A o \in S : ~VersionLt(v, o)}

RECURSIVE SortedDescending(_)
\* sorted(list(compatible), key=parse, reverse=True): the order of the
\* elements whose keys are equal is that of the iteration over the set
SortedDescending(S) ==
    IF S = {} THEN {<<>>}
    ELSE UNION {{<<m>> \o rest : rest \in SortedDescending(S \ {m})} : m \in Newest(S)}

\* [:5]
Truncate(l) == SubSeq(l, 1, IF Len(l) < MaxReturned THEN Len(l) ELSE MaxReturned)

\* lines 227-233: the checks of the arguments
GetCompatibleVersionsCall ==
    /\ pc = "idle"
    /\ fetches' = NoFetches
    /\ cache_calls' = 0
    /\ IF validate_arguments(package, conflict) # Str("")
       THEN /\ result' = Raise("get_compatible_versions",
                               validate_arguments(package, conflict))
            /\ pc' = "idle"
       ELSE /\ result' = NoResult
            /\ pc' = "gcv_cache"
    /\ seen' = Observe(seen, result', CacheCondition(FALSE))
    /\ UNCHANGED <<cli, index, dependencies, order, conflicts, dep_graph, i, j,
                   package, conflict, req_arg, report_arg, cache_ready,
                   conflicts_table, versions_table, last_store, now>>

\* lines 236-243: the cache lookup
GetCompatibleVersionsCached ==
    /\ pc = "gcv_cache"
    /\ cache_calls' = cache_calls + 1
    /\ LET cached_versions ==
               cache_get_compatible_versions(cache_ready, versions_table, package,
                                             json_safe_conflict(conflict), now)
       IN  IF cached_versions.found /\ cached_versions.value # <<>>
           THEN /\ result' = Return("get_compatible_versions", cached_versions.value)
                /\ pc' = "idle"
           ELSE /\ result' = NoResult
                /\ pc' = "gcv_fetch"
    /\ seen' = Observe(seen, result', CacheCondition(result'.op # "none"))
    /\ UNCHANGED <<cli, index, dependencies, order, conflicts, dep_graph, i, j,
                   package, conflict, req_arg, report_arg, fetches, cache_ready,
                   conflicts_table, versions_table, last_store, now>>

\* lines 245-256: the metadata fetch
GetCompatibleVersionsFetch ==
    /\ pc = "gcv_fetch"
    /\ fetches' = [fetches EXCEPT ![package] = @ + 1]
    /\ LET pkg_data == get_package_metadata(index, package)
       IN  IF ~pkg_data.ok
           THEN /\ result' = Raise("get_compatible_versions", pkg_data.error)
                /\ pc' = "idle"
           ELSE IF pkg_data.releases = {}
           THEN /\ result' = Raise("get_compatible_versions",
                                   Str(<<"No releases found for package", package>>))
                /\ pc' = "idle"
           ELSE /\ result' = NoResult
                /\ pc' = "gcv_select"
    /\ seen' = Observe(seen, result', CacheCondition(FALSE))
    /\ UNCHANGED <<cli, index, dependencies, order, conflicts, dep_graph, i, j,
                   package, conflict, req_arg, report_arg, cache_calls,
                   cache_ready, conflicts_table, versions_table, last_store, now>>

\* lines 258-278: filter, sort, truncate, store
GetCompatibleVersionsSelect ==
    /\ pc = "gcv_select"
    /\ pc' = "idle"
    /\ LET all_versions == index[package].releases
           specs == CollectSpecs(conflict, SortKeys(DOMAIN conflict))
           compatible == check_version_compatibility(all_versions, specs)
       IN  IF specs = <<>>
           THEN /\ result' = Raise("get_compatible_versions",
                       Str(<<"No valid version specifications found in conflict data">>))
                /\ UNCHANGED <<versions_table, cache_calls>>
           ELSE IF compatible = {}
           THEN /\ result' = Return("get_compatible_versions", <<>>)
                /\ UNCHANGED <<versions_table, cache_calls>>
           ELSE \E sorted \in SortedDescending(compatible) :
                    LET compatible_versions == Truncate(sorted)
                    IN  /\ versions_table' =
                               cache_store_compatible_versions(cache_ready,
                                   versions_table, package,
                                   json_safe_conflict(conflict),
                                   compatible_versions, now)
                        /\ cache_calls' = cache_calls + 1
                        /\ result' = Return("get_compatible_versions",
                                            compatible_versions)
    /\ seen' = Observe(seen, result', CacheCondition(FALSE))
    /\ UNCHANGED <<cli, index, dependencies, order, conflicts, dep_graph, i, j,
                   package, conflict, req_arg, report_arg, fetches, cache_ready,
                   conflicts_table, last_store, now>>

-----------------------------------------------------------------------------
(* The selector on a bounded family of indexes and conflict records *)

\* largest version number the index of the selector publishes
MaxRelease == 6

\* the version strings of package "a": 1 .. MaxRelease, "1.0", which denotes
\* the same version as "1", and a string that is no version
ReleaseStrings == {<<n>> : n \in 1..MaxRelease} \cup {<<1, 0>>, <<-1>>}

SelectorIndexes ==
    {[p \in PackageNames |-> IF p = "a" THEN e ELSE Missing] :
        e \in {Missing} \cup {Published(r, <<>>) : r \in SUBSET ReleaseStrings}}

EmptyText == [op |-> "", version |-> <<>>]

ConflictRecords ==
    { EmptyDict,
      [direct |-> List(<<>>)],
      [direct |-> List(<<EmptyText>>)],
      [error |-> FetchError("a")],
      [direct |-> List(<<GE(1)>>)],
      [direct |-> List(<<GE(1)>>), b |-> List(<<LT(MaxRelease), EmptyText>>)],
      [b |-> List(<<EQ(1)>>)],
      [b |-> List(<<NoReleasesText>>)],
      [direct |-> List(<<GE(3)>>), b |-> List(<<LT(2)>>)],
      [direct |-> List(<<GE(1)>>), error |-> FetchError("a")] }

InitGCV ==
    /\ index \in SelectorIndexes
    /\ package \in {"", "a"}
    /\ conflict \in ConflictRecords
    /\ dependencies = EmptyDict
    /\ order = <<>>
    /\ req_arg = EmptyDict
    /\ report_arg = EmptyDict
    /\ requirements_file = NoFile
    /\ Idle

NextGCV ==
    \/ GetCompatibleVersionsCall
    \/ GetCompatibleVersionsCached
    \/ GetCompatibleVersionsFetch
    \/ GetCompatibleVersionsSelect
    \/ Initialize

SpecGCV == InitGCV /\ [][NextGCV]_vars

-----------------------------------------------------------------------------
(* Properties of the selector *)

Selected == result.op = "get_compatible_versions" /\ result.kind = "return"

\* every constraint of every value of the record
Constraints(c) ==
    UNION {{s \in Range(c[k].val) : s.op # ""} : k \in {q \in DOMAIN c : c[q].type = "list"}}

\* the published versions of the package that satisfy all of them
Candidates ==
    {v \in index[package].releases :
        /\ IsValidVersion(v)
        /\ \A s \in Constraints(conflict) : Satisfying({v}, <<s>>) # {}}

Smaller(m, n) == IF m < n THEN m ELSE n

\* C5: for a record with a constraint the list returned holds the newest
\* (up to 5) published versions that satisfy every constraint of every value:
\* each entry is such a version, none is listed twice, as many are listed as
\* there are (at most 5), and no version left out is newer than a listed one
C5_NewestSatisfyingReturned ==
    Selected /\ Constraints(conflict) # {} =>
        /\ Range(result.value) \subseteq Candidates
        /\ Len(result.value) = Smaller(MaxReturned, Cardinality(Candidates))
        /\ Cardinality(Range(result.value)) = Len(result.value)
        /\ \A v \in Candidates \ Range(result.value) :
              \A r \in Range(result.value) : ~VersionLt(r, v)

C5_Witness ==
    /\ Selected
    /\ package \in PackageNames
    /\ cache_calls = 2
    /\ Cardinality(DOMAIN conflict) > 1
    /\ Cardinality(Candidates) > MaxReturned
    /\ Candidates # {v \in index[package].releases : IsValidVersion(v)}
    /\ Len(result.value) = MaxReturned

\* C6: a returned list, computed or read from the cache, has at most 5
\* entries and each entry is a strictly older version than the one before
C6_StrictlyDescending ==
    Selected =>
        /\ Len(result.value) <= MaxReturned
        /\ \A k \in 1..(Len(result.value) - 1) :
              VersionLt(result.value[k + 1], result.value[k])

\* C7: when the fetch of the package fails the call raises and returns no
\* list; with valid arguments the error is the one of the failed fetch
C7_FetchFailureRaised ==
    /\ result.op = "get_compatible_versions"
    /\ package \in PackageNames
    /\ ~Fetched(package)
    => /\ result.kind = "raise"
       /\ DOMAIN conflict # {} =>
             result.error = FetchError(package) /\ fetches[package] = 1

C7_Witness ==
    /\ result.op = "get_compatible_versions"
    /\ package \in PackageNames
    /\ ~Fetched(package)
    /\ Constraints(conflict) # {}
    /\ cache_ready
    /\ result.kind = "raise"
    /\ result.error = FetchError(package)

\* the versions the index publishes for the package, newest first, cut at 5
IsNewestPublished(l) ==
    LET published == {v \in index[package].releases : IsValidVersion(v)}
    IN  /\ Range(l) \subseteq published
        /\ Len(l) = Smaller(MaxReturned, Cardinality(published))
        /\ Cardinality(Range(l)) = Len(l)
        /\ \A v \in published \ Range(l) : \A r \in Range(l) : ~VersionLt(r, v)

\* C8 as stated: for a record without any constraint the call returns the 5
\* newest published versions, unfiltered. Read in its favour: the package is
\* fetched and publishes versions.
C8_NoConstraintReturnsNewest ==
    /\ result.op = "get_compatible_versions"
    /\ package \in PackageNames
    /\ Fetched(package)
    /\ index[package].releases # {}
    /\ Constraints(conflict) = {}
    => result.kind = "return" /\ IsNewestPublished(result.value)

\* C8 amended: for a record without any constraint the call returns no list
\* and raises: 'Invalid conflict data' for the empty record before any fetch,
\* and for a record whose values hold no constraint the error of the fetch,
\* of the missing releases, or 'No valid version specifications found'
C8_NoConstraintRaises ==
    result.op = "get_compatible_versions" /\ Constraints(conflict) = {} =>
        /\ result.kind = "raise"
        /\ package # "" /\ DOMAIN conflict = {} =>
              result.error = Str(<<"Invalid conflict data">>)
        /\ package # "" /\ DOMAIN conflict # {} /\ Fetched(package)
              /\ index[package].releases # {} =>
              result.error =
                  Str(<<"No valid version specifications found in conflict data">>)

C8_Witness ==
    /\ result.op = "get_compatible_versions"
    /\ package \in PackageNames
    /\ DOMAIN conflict # {}
    /\ \E k \in DOMAIN conflict : conflict[k].type = "list" /\ conflict[k].val # <<>>
    /\ Constraints(conflict) = {}
    /\ Cardinality(index[package].releases) > MaxReturned
    /\ result.kind = "raise"
    /\ result.error = Str(<<"No valid version specifications found in conflict data">>)

\* C9: with an empty package name or an empty conflict record the call
\* raises the error of the invalid argument before any fetch or cache call
C9_InvalidInputRaisedFirst ==
    result.op = "get_compatible_versions" /\ (package = "" \/ DOMAIN conflict = {}) =>
        /\ result.kind = "raise"
        /\ result.error = IF package = ""
                          THEN Str(<<"Package name cannot be empty">>)
                          ELSE Str(<<"Invalid conflict data">>)
        /\ fetches = NoFetches
        /\ cache_calls = 0

C9_Witness ==
    /\ result.op = "get_compatible_versions"
    /\ package # ""
    /\ DOMAIN conflict = {}
    /\ cache_ready
    /\ Fetched(package)
    /\ result.kind = "raise"
    /\ result.error = Str(<<"Invalid conflict data">>)
    /\ cache_calls = 0

-----------------------------------------------------------------------------
(* DependencyCache used directly: store_conflicts, get_conflicts, the clock *)

\* the clock advances by this many hours at a time
TickHours == 12

\* the clock stops here
MaxTime == 36

CacheRequests ==
    { EmptyDict,
      [c |-> <<GE(MaxVersion)>>],
      [a |-> <<GE(1)>>, c |-> <<>>] }

CacheReports ==
    { EmptyDict,
      [c |-> [direct |-> List(<<GE(MaxVersion)>>)]],
      [a |-> [error |-> FetchError("a")],
       c |-> [a |-> List(<<LT(MaxVersion)>>), b |-> List(<<NoReleasesText>>)]] }

\* cache.store_conflicts(dependencies, conflicts)
StoreConflicts ==
    /\ pc = "idle"
    /\ \E d \in CacheRequests : \E r \in CacheReports :
          /\ req_arg' = d
          /\ report_arg' = r
          /\ conflicts_table' = cache_store_conflicts(cache_ready, conflicts_table, d, r, now)
          /\ last_store' = [called |-> TRUE, req |-> d, report |-> r,
                            at |-> now, ready |-> cache_ready]
    /\ result' = [op |-> "store_conflicts", kind |-> "return"]
    /\ UNCHANGED <<cli, seen, index, dependencies, order, conflicts, dep_graph, i, j,
                   package, conflict, pc, fetches, cache_calls, cache_ready,
                   versions_table, now>>

\* cache.get_conflicts(dependencies)
GetConflicts ==
    /\ pc = "idle"
    /\ \E d \in CacheRequests :
          /\ req_arg' = d
          /\ result' = Return("get_conflicts",
                              cache_get_conflicts(cache_ready, conflicts_table, d, now))
    /\ UNCHANGED <<cli, seen, index, dependencies, order, conflicts, dep_graph, i, j,
                   package, conflict, report_arg, pc, fetches, cache_calls,
                   cache_ready, conflicts_table, versions_table, last_store, now>>

\* datetime.now() moves on; the outcome of the last call is of an earlier time
Tick ==
    /\ pc = "idle"
    /\ now + TickHours <= MaxTime
    /\ now' = now + TickHours
    /\ result' = NoResult
    /\ UNCHANGED <<cli, seen, index, dependencies, order, conflicts, dep_graph, i, j,
                   package, conflict, req_arg, report_arg, pc, fetches,
                   cache_calls, cache_ready, conflicts_table, versions_table,
                   last_store>>

InitCache ==
    /\ index = [p \in PackageNames |-> Missing]
    /\ dependencies = EmptyDict
    /\ order = <<>>
    /\ package = ""
    /\ conflict = EmptyDict
    /\ req_arg = EmptyDict
    /\ report_arg = EmptyDict
    /\ requirements_file = NoFile
    /\ Idle

NextCache ==
    \/ Initialize
    \/ StoreConflicts
    \/ GetConflicts
    \/ Tick

SpecCache == InitCache /\ [][NextCache]_vars

\* the last cache call was a get_conflicts for the request stored last
GotAfterStore ==
    /\ result.op = "get_conflicts"
    /\ last_store.called
    /\ last_store.req = req_arg

\* C10 as stated: get_conflicts right after store_conflicts(req, report)
\* returns a report equal to report, whatever req and report are and whether
\* or not initialize was called
C10_RoundTripAlways ==
    GotAfterStore /\ last_store.at = now =>
        result.value.found /\ result.value.value = last_store.report

\* C10 amended: on a cache whose tables exist, for a non-empty request and a
\* non-empty report, get_conflicts returns the report stored last for the
\* request as long as no more than 24 hours have passed since the store
C10_RoundTripWhenStored ==
    /\ GotAfterStore
    /\ last_store.ready
    /\ DOMAIN last_store.req # {}
    /\ DOMAIN last_store.report # {}
    /\ now - last_store.at <= CacheExpiry
    => result.value = Found(last_store.report)

C10_Witness ==
    /\ GotAfterStore
    /\ last_store.ready
    /\ Cardinality(DOMAIN last_store.report) > 1
    /\ now - last_store.at = CacheExpiry
    /\ result.value = Found(last_store.report)

-----------------------------------------------------------------------------
(* DependencyResolver with and without its cache *)

\* a request for "a" and "c" over an index without "b", or a selector call
InitResolver ==
    \/ /\ Init
       /\ index["b"] = Missing
       /\ "b" \notin DOMAIN dependencies
    \/ InitGCV

NextResolver ==
    \/ FindConflictsCall
    \/ Pass1Step
    \/ Pass1Done
    \/ Pass2Step
    \/ FindConflictsReturn
    \/ GetCompatibleVersionsCall
    \/ GetCompatibleVersionsCached
    \/ GetCompatibleVersionsFetch
    \/ GetCompatibleVersionsSelect
    \/ Initialize

SpecResolver == InitResolver /\ [][NextResolver]_vars

\* two version lists that differ at most in the spelling of equal versions
SameVersions(l1, l2) ==
    /\ Len(l1) = Len(l2)
    /\ \A k \in DOMAIN l1 : VersionEq(l1[k], l2[k])

SameOutcome(r1, r2) ==
    /\ r1.op = r2.op
    /\ r1.kind = r2.kind
    /\ IF r1.kind = "raise" THEN r1.error = r2.error
       ELSE IF r1.op = "find_conflicts" THEN r1.value = r2.value
       ELSE SameVersions(r1.value, r2.value)

\* C11: a call of find_conflicts or get_compatible_versions made while
\* cache.db cannot be read or written ends as the same call ends with a
\* working cache that holds no valid row: the same error of the resolver,
\* or the same result (for a version list, up to the order and spelling of
\* versions that compare equal, which no cache decides)
C11_CacheNeverDecides ==
    \A op \in DOMAIN seen :
        LET without == seen[op]["unavailable"]
            with == seen[op]["miss"]
        IN  without.op # "none" /\ with.op # "none" => SameOutcome(without, with)

C11_Witness ==
    /\ seen["find_conflicts"]["unavailable"].op # "none"
    /\ seen["find_conflicts"]["miss"].op # "none"
    /\ seen["find_conflicts"]["miss"].kind = "return"
    /\ DOMAIN seen["find_conflicts"]["miss"].value # {}

C11_WitnessSelector ==
    /\ seen["get_compatible_versions"]["unavailable"].op # "none"
    /\ seen["get_compatible_versions"]["miss"].op # "none"
    /\ seen["get_compatible_versions"]["miss"].kind = "return"
    /\ seen["get_compatible_versions"]["miss"].value # <<>>

-----------------------------------------------------------------------------
(* DependencyCache: the three tables, expiry and undecodable rows *)

ExpiryConflict == [direct |-> List(<<GE(1)>>)]

ExpiryVersions == {<<>>, <<<<2>>, <<1>>>>}

\* arguments of store_resolutions; <<>> is the empty version string
ResolutionChoices == {[a |-> <<1>>], [a |-> <<2>>, c |-> <<>>]}

\* cache.store_conflicts with the arguments of the behaviour
StoreSameConflicts == StoreConflicts /\ req_arg' = req_arg /\ report_arg' = report_arg

\* cache.get_conflicts with the argument of the behaviour
GetSameConflicts == GetConflicts /\ req_arg' = req_arg

\* cache.store_compatible_versions(package, conflict, versions)
StoreVersions ==
    /\ pc = "idle"
    /\ \E versions \in ExpiryVersions :
          versions_table' = cache_store_compatible_versions(
                                cache_ready, versions_table, package, conflict,
                                versions, now)
    /\ result' = [op |-> "store_compatible_versions", kind |-> "return"]
    /\ UNCHANGED <<cli, seen, index, dependencies, order, conflicts, dep_graph, i, j,
                   package, conflict, req_arg, report_arg, pc, fetches, cache_calls,
                   cache_ready, conflicts_table, last_store, now>>

\* cache.get_compatible_versions(package, conflict)
GetVersions ==
    /\ pc = "idle"
    /\ result' = Return("cache.get_compatible_versions",
                        cache_get_compatible_versions(
                            cache_ready, versions_table, package, conflict, now))
    /\ UNCHANGED <<cli, seen, index, dependencies, order, conflicts, dep_graph, i, j,
                   package, conflict, req_arg, report_arg, pc, fetches, cache_calls,
                   cache_ready, conflicts_table, versions_table, last_store, now>>

\* cache.store_resolutions(resolved_deps)
StoreResolutions ==
    /\ pc = "idle"
    /\ resolutions_table' =
           cache_store_resolutions(cache_ready, resolutions_table, resolved_deps, now)
    /\ result' = [op |-> "store_resolutions", kind |-> "return"]
    /\ UNCHANGED <<requirements_file, resolved_deps, todo, cmd, lines, snapshot,
                   seen, index, dependencies, order, conflicts, dep_graph, i, j, package,
                   conflict, req_arg, report_arg, pc, fetches, cache_calls,
                   cache_ready, conflicts_table, versions_table, last_store, now>>

\* cache.get_resolutions()
GetResolutions ==
    /\ pc = "idle"
    /\ result' = Return("get_resolutions",
                        cache_get_resolutions(cache_ready, resolutions_table, now))
    /\ UNCHANGED <<cli, seen, index, dependencies, order, conflicts, dep_graph, i, j,
                   package, conflict, req_arg, report_arg, pc, fetches, cache_calls,
                   cache_ready, conflicts_table, versions_table, last_store, now>>

\* a row of cache.db is damaged: its JSON column no longer decodes
Corrupt ==
    /\ pc = "idle"
    /\ \/ /\ \E k \in DOMAIN conflicts_table :
                conflicts_table' =
                    [conflicts_table EXCEPT ![k].conflicts_data = UndecodableDict]
          /\ UNCHANGED versions_table
       \/ /\ \E k \in DOMAIN versions_table :
                versions_table' =
                    [versions_table EXCEPT ![k].versions = UndecodableList]
          /\ UNCHANGED conflicts_table
    /\ result' = NoResult
    /\ UNCHANGED <<cli, seen, index, dependencies, order, conflicts, dep_graph, i, j,
                   package, conflict, req_arg, report_arg, pc, fetches, cache_calls,
                   cache_ready, last_store, now>>

\* each behaviour has the arguments of one table, the other two stay empty
InitExpiry ==
    /\ index = [p \in PackageNames |-> Missing]
    /\ dependencies = EmptyDict
    /\ order = <<>>
    /\ requirements_file = NoFile
    /\ NoCall
    /\ \/ /\ req_arg \in CacheRequests \ {EmptyDict}
          /\ report_arg \in CacheReports
          /\ package = ""
          /\ conflict = EmptyDict
          /\ resolved_deps = EmptyDict
       \/ /\ req_arg = EmptyDict
          /\ report_arg = EmptyDict
          /\ package = "a"
          /\ conflict = ExpiryConflict
          /\ resolved_deps = EmptyDict
       \/ /\ req_arg = EmptyDict
          /\ report_arg = EmptyDict
          /\ package = ""
          /\ conflict = EmptyDict
          /\ resolved_deps \in ResolutionChoices

NextExpiry ==
    \/ Initialize
    \/ StoreSameConflicts
    \/ GetSameConflicts
    \/ StoreVersions
    \/ GetVersions
    \/ StoreResolutions
    \/ GetResolutions
    \/ Corrupt
    \/ Tick

SpecExpiry == InitExpiry /\ [][NextExpiry]_vars

\* hours since the row was written
Age(row) == now - row.last_updated

\* get_conflicts answers from the row of its key, written by the last store
ConflictsEntryExpires ==
    LET key == json_dumps(req_arg)
    IN  IF DOMAIN req_arg = {} \/ key \notin DOMAIN conflicts_table
        THEN ~result.value.found
        ELSE LET row == conflicts_table[key]
             IN  /\ last_store.called /\ last_store.ready
                 /\ row.last_updated = last_store.at
                 /\ Age(row) > CacheExpiry => ~result.value.found
                 /\ ~Decodable(row.conflicts_data) => ~result.value.found
                 /\ Age(row) < CacheExpiry /\ Decodable(row.conflicts_data)
                        => result.value = Found(last_store.report)

VersionsEntryExpires ==
    LET key == conflict_key(package, conflict)
    IN  IF package = "" \/ DOMAIN conflict = {} \/ key \notin DOMAIN versions_table
        THEN ~result.value.found
        ELSE LET row == versions_table[key]
             IN  /\ Age(row) > CacheExpiry => ~result.value.found
                 /\ ~DecodableList(row.versions) => ~result.value.found
                 /\ Age(row) < CacheExpiry /\ DecodableList(row.versions)
                        => result.value = Found(json_loads_list(row.versions))

ResolutionsEntriesExpire ==
    /\ DOMAIN result.value \subseteq DOMAIN resolutions_table
    /\ \A p \in DOMAIN resolutions_table :
          LET row == resolutions_table[p]
          IN  /\ Age(row) > CacheExpiry => p \notin DOMAIN result.value
              /\ Age(row) < CacheExpiry =>
                     p \in DOMAIN result.value /\ result.value[p] = row.version

\* C12: each of the three getters returns (never raises); what it returns
\* leaves out every entry written more than 24 hours before the call and
\* every entry that no longer decodes, and has the stored value of every
\* decodable entry written less than 24 hours before the call
C12_EntriesExpire ==
    /\ result.op = "get_conflicts" =>
           result.kind = "return" /\ ConflictsEntryExpires
    /\ result.op = "cache.get_compatible_versions" =>
           result.kind = "return" /\ VersionsEntryExpires
    /\ result.op = "get_resolutions" =>
           result.kind = "return" /\ ResolutionsEntriesExpire

C12_Witness ==
    /\ result.op = "get_conflicts"
    /\ json_dumps(req_arg) \in DOMAIN conflicts_table
    /\ Decodable(conflicts_table[json_dumps(req_arg)].conflicts_data)
    /\ Age(conflicts_table[json_dumps(req_arg)]) > CacheExpiry
    /\ ~result.value.found

C12_WitnessFresh ==
    /\ result.op = "get_resolutions"
    /\ now > 0
    /\ DOMAIN result.value # {}

C12_WitnessResolutionExpired ==
    /\ result.op = "get_resolutions"
    /\ DOMAIN resolutions_table # {}
    /\ DOMAIN result.value = {}

C12_WitnessVersions ==
    /\ result.op = "cache.get_compatible_versions"
    /\ now > 0
    /\ result.value.found

C12_WitnessCorrupt ==
    /\ result.op = "cache.get_compatible_versions"
    /\ conflict_key(package, conflict) \in DOMAIN versions_table
    /\ Age(versions_table[conflict_key(package, conflict)]) < CacheExpiry
    /\ ~result.value.found

-----------------------------------------------------------------------------
(* find_conflicts on one map in two key orders, the cache never created *)

\* the orders in which a dict with these keys can be iterated
KeyOrders(keys) ==
    {s \in [1..Cardinality(keys) -> keys] :
        \A m, n \in 1..Cardinality(keys) : s[m] = s[n] => m = n}

\* once a report was returned, the caller builds the same map in another order
Reorder ==
    /\ pc = "idle"
    /\ seen["find_conflicts"]["unavailable"].op # "none"
    /\ order = SortKeys(DOMAIN dependencies)
    /\ order' \in KeyOrders(DOMAIN dependencies) \ {order}
    /\ UNCHANGED <<cli, seen, index, dependencies, conflicts, dep_graph, i, j,
                   package, conflict, req_arg, report_arg, pc, result, fetches,
                   cache_calls, cache_ready, conflicts_table, versions_table,
                   last_store, now>>

InitOrder == Init /\ order = SortKeys(DOMAIN dependencies)

NextOrder ==
    \/ FindConflictsCall
    \/ Pass1Step
    \/ Pass1Done
    \/ Pass2Step
    \/ FindConflictsReturn
    \/ Reorder

SpecOrder == InitOrder /\ [][NextOrder]_vars

\* C13: with the index unchanged and no cache, every report find_conflicts
\* returns for a map equals the report of the first call for that map,
\* whatever the key order of either call
C13_OrderIndependent ==
    Returned /\ seen["find_conflicts"]["unavailable"].op # "none" =>
        result = seen["find_conflicts"]["unavailable"]

\* a report with entries of two dependents on one package, returned for the
\* map in an order other than the order of the first call
C13_Witness ==
    /\ Returned
    /\ order # SortKeys(DOMAIN dependencies)
    /\ seen["find_conflicts"]["unavailable"].op # "none"
    /\ "c" \in DOMAIN result.value
    /\ {"a", "b"} \subseteq DOMAIN result.value["c"]

-----------------------------------------------------------------------------
(* find_conflicts: extras, the number of fetches, packages without versions *)

\* P's metadata names dep in an entry that carries no 'extra' marker
DeclaredWithoutExtra(P, dep) ==
    \E n \in DOMAIN index[P].requires_dist :
        /\ index[P].requires_dist[n].name = dep
        /\ index[P].requires_dist[n].marker # "extra"

\* C14: a requires_dist entry with an 'extra' marker is in no declared-
\* dependency map and is the origin of no cross-conflict entry of a report
C14_ExtrasExcluded ==
    /\ \A P \in DictKeys(dep_graph) :
          \A dep \in DictKeys(DictGet(dep_graph, P).requires) :
              DeclaredWithoutExtra(P, dep)
    /\ Returned =>
          \A dep \in DOMAIN result.value :
              \A P \in DOMAIN result.value[dep] \cap PackageNames :
                  DeclaredWithoutExtra(P, dep)

\* C16: no package is fetched more than once during one find_conflicts call
C16_AtMostOneFetch == \A p \in PackageNames : fetches[p] <= 1

\* C17: a requested package that is fetched and publishes no version has an
\* entry of the shape {direct: its constraints} in the report
C17_NoVersionsIsDirect ==
    Returned =>
        \A p \in DOMAIN dependencies :
            dependencies[p] # <<>> /\ Fetched(p) /\ index[p].releases = {} =>
                /\ p \in DOMAIN result.value
                /\ "direct" \in DOMAIN result.value[p]
                /\ "error" \notin DOMAIN result.value[p]
                /\ result.value[p]["direct"] = List(dependencies[p])

-----------------------------------------------------------------------------
(* DependencyParser: the lines of requirements.txt *)

\* a line of the file: a requirement, a comment, a blank line, or text that
\* Requirement() rejects; padded when whitespace surrounds it
Line(kind, name, specifier, padded) ==
    [kind |-> kind, name |-> name, specifier |-> specifier, padded |-> padded]

\* line.strip()
Strip(line) == [line EXCEPT !.padded = FALSE]

\* f"{req.name}=={resolved_deps[req.name]}"
Pinned(name, version) ==
    Line("requirement", name, <<[op |-> "==", version |-> version]>>, FALSE)

\* mutant: no line is rewritten
update_line_keep(line, resolved) == Strip(line)

\* one iteration of the loop of update_requirements: the line appended
update_line(line, resolved) ==
    LET stripped == Strip(line)
    IN  IF stripped.kind \in {"blank", "comment"} THEN stripped
        ELSE IF stripped.kind = "requirement" /\ stripped.name \in DOMAIN resolved
        THEN Pinned(stripped.name, resolved[stripped.name])
        ELSE stripped

\* '\n'.join(updated_lines) + '\n', read back as lines: no line gives one
\* empty line
Written(updated_lines) ==
    IF updated_lines = <<>> THEN <<Line("blank", "", <<>>, FALSE)>>
    ELSE updated_lines

\* DependencyParser.update_requirements: the file afterwards
update_requirements(file, resolved) ==
    [exists |-> TRUE,
     lines |-> Written([n \in DOMAIN file.lines |->
                           update_line(file.lines[n], resolved)])]

\* parser.update_requirements(resolved_deps) called on its own
UpdateRequirements ==
    /\ pc = "idle"
    /\ cmd = "none"
    /\ IF ~requirements_file.exists
       THEN /\ result' = Raise("update_requirements",
                               Str(<<"Failed to update requirements.txt">>))
            /\ UNCHANGED <<requirements_file, lines>>
       ELSE /\ lines' = requirements_file.lines
            /\ requirements_file' = update_requirements(requirements_file, resolved_deps)
            /\ result' = [op |-> "update_requirements", kind |-> "return"]
    /\ UNCHANGED <<resolutions_table, resolved_deps, todo, cmd, snapshot, seen,
                   index, dependencies, order, conflicts, dep_graph, i, j, package,
                   conflict, req_arg, report_arg, pc, fetches, cache_calls,
                   cache_ready, conflicts_table, versions_table, last_store, now>>

\* longest requirements.txt of the family, in lines
MaxLines == 2

FileLines ==
    {Line("requirement", n, <<GE(1)>>, p) : n \in {"a", "b"}, p \in BOOLEAN}
    \cup {Line(k, "", <<>>, p) : k \in {"comment", "blank"}, p \in BOOLEAN}
    \cup {Line("other", "", <<>>, FALSE)}

Files ==
    {NoFile} \cup
    {[exists |-> TRUE, lines |-> l] :
        l \in UNION {[1..n -> FileLines] : n \in 0..MaxLines}}

ResolvedMaps == {[a |-> <<2>>], [a |-> <<2>>, c |-> <<1>>]}

InitUpdate ==
    /\ index = [p \in PackageNames |-> Missing]
    /\ dependencies = EmptyDict
    /\ order = <<>>
    /\ package = ""
    /\ conflict = EmptyDict
    /\ req_arg = EmptyDict
    /\ report_arg = EmptyDict
    /\ requirements_file \in Files
    /\ resolved_deps \in ResolvedMaps
    /\ NoCall

NextUpdate == UpdateRequirements \/ Initialize

SpecUpdate == InitUpdate /\ [][NextUpdate]_vars

Updated == result.op = "update_requirements" /\ result.kind = "return"

Matching(line) ==
    Strip(line).kind = "requirement" /\ line.name \in DOMAIN resolved_deps

\* C15 as stated: the file has as many lines as before; a line that names a
\* resolved package is name==version, every other line is as it was
C15_OtherLinesUnchanged ==
    Updated =>
        /\ Len(requirements_file.lines) = Len(lines)
        /\ \A n \in DOMAIN lines :
              requirements_file.lines[n] =
                  IF Matching(lines[n])
                  THEN Pinned(lines[n].name, resolved_deps[lines[n].name])
                  ELSE lines[n]

\* C15 amended: for a file of at least one line, as many lines as before; a
\* line that names a resolved package is name==version, every other line is
\* as it was without its leading and trailing whitespace
C15_OtherLinesStripped ==
    Updated /\ lines # <<>> =>
        /\ Len(requirements_file.lines) = Len(lines)
        /\ \A n \in DOMAIN lines :
              requirements_file.lines[n] =
                  IF Matching(lines[n])
                  THEN Pinned(lines[n].name, resolved_deps[lines[n].name])
                  ELSE Strip(lines[n])

C15_Witness ==
    /\ Updated
    /\ Len(lines) = MaxLines
    /\ Matching(lines[1])
    /\ ~Matching(lines[2])
    /\ lines[2].padded
    /\ requirements_file.lines[1] # lines[1]

-----------------------------------------------------------------------------
(* cli.resolve *)

RECURSIVE parse_requirements(_, _)
\* DependencyParser._parse_requirements: the dict, in insertion order
parse_requirements(ls, deps) ==
    IF ls = <<>> THEN deps
    ELSE LET line == Strip(Head(ls))
         IN  IF line.kind = "requirement"
             THEN parse_requirements(Tail(ls), DictPut(deps, line.name, line.specifier))
             ELSE parse_requirements(Tail(ls), deps)

\* DependencyParser.parse_project_dependencies, no setup.py in the directory
parse_project_dependencies(file) ==
    IF file.exists THEN parse_requirements(file.lines, <<>>) ELSE <<>>

\* mutant: the file is rewritten whether or not the loop was completed
FileAfterResolve_always(file, resolved, completed) ==
    IF DOMAIN resolved # {} /\ file.exists
    THEN update_requirements(file, resolved)
    ELSE file

\* requirements.txt when resolve ends, the loop completed or left by a raise
FileAfterResolve(file, resolved, completed) ==
    IF completed /\ DOMAIN resolved # {} /\ file.exists
    THEN update_requirements(file, resolved)
    ELSE file

\* table resolutions when resolve ends; update_requirements raises without a
\* file, and then store_resolutions is not reached
ResolutionsAfterResolve(table, file, resolved, completed) ==
    IF completed /\ DOMAIN resolved # {} /\ file.exists
    THEN cache_store_resolutions(cache_ready, table, resolved, now)
    ELSE table

\* lines 62-69: the command begins, parses the file and calls find_conflicts
ResolveStart ==
    /\ pc = "idle"
    /\ cmd = "none"
    /\ snapshot' = [taken |-> TRUE, file |-> requirements_file,
                    resolutions |-> resolutions_table]
    /\ resolved_deps' = EmptyDict
    /\ todo' = <<>>
    /\ LET deps == parse_project_dependencies(requirements_file)
       IN  IF deps = <<>>
           THEN /\ result' = Raise("resolve", Str(<<"No dependencies found">>))
                /\ UNCHANGED <<dependencies, order, cmd>>
           ELSE /\ dependencies' = [k \in DictKeys(deps) |-> DictGet(deps, k)]
                /\ order' = [n \in DOMAIN deps |-> deps[n][1]]
                /\ result' = NoResult
                /\ cmd' = "find"
    /\ UNCHANGED <<requirements_file, resolutions_table, lines, seen, index,
                   conflicts, dep_graph, i, j, package, conflict, req_arg,
                   report_arg, pc, fetches, cache_calls, cache_ready,
                   conflicts_table, versions_table, last_store, now>>

\* line 69: resolver.find_conflicts(deps) is entered
ResolveFindConflicts == cmd = "find" /\ result = NoResult /\ FindConflictsCall

\* lines 71-76: the report is back; conflicts.items() is about to be iterated.
\* The report of the model does not keep its insertion order, so every order
\* of its keys is tried.
ResolveReport ==
    /\ pc = "idle"
    /\ cmd = "find"
    /\ result.op = "find_conflicts"
    /\ IF DOMAIN result.value = {}
       THEN /\ cmd' = "none"
            /\ result' = [op |-> "resolve", kind |-> "return"]
            /\ UNCHANGED todo
       ELSE /\ \E items \in KeyOrders(DOMAIN result.value) :
                  todo' = [n \in DOMAIN items |->
                              <<items[n], result.value[items[n]]>>]
            /\ cmd' = "loop"
            /\ UNCHANGED result
    /\ UNCHANGED <<requirements_file, resolutions_table, resolved_deps, lines,
                   snapshot, seen, index, dependencies, order, conflicts,
                   dep_graph, i, j, package, conflict, req_arg, report_arg, pc,
                   fetches, cache_calls, cache_ready, conflicts_table,
                   versions_table, last_store, now>>

\* lines 76-78: the next item of the report
ResolveNext ==
    /\ pc = "idle"
    /\ cmd = "loop"
    /\ todo # <<>>
    /\ package' = Head(todo)[1]
    /\ conflict' = Head(todo)[2]
    /\ result' = NoResult
    /\ cmd' = "select"
    /\ UNCHANGED <<requirements_file, resolutions_table, resolved_deps, todo,
                   lines, snapshot, seen, index, dependencies, order, conflicts,
                   dep_graph, i, j, req_arg, report_arg, pc, fetches,
                   cache_calls, cache_ready, conflicts_table, versions_table,
                   last_store, now>>

\* line 78: resolver.get_compatible_versions(pkg, conflict) is entered
ResolveSelect == cmd = "select" /\ result = NoResult /\ GetCompatibleVersionsCall

\* lines 80-95 and 103-106: the versions are back and one is chosen at the
\* prompt, or there is none, or the call raised and the command ends
ResolveTake ==
    /\ pc = "idle"
    /\ cmd = "select"
    /\ result.op = "get_compatible_versions"
    /\ IF result.kind = "raise"
       THEN /\ cmd' = "none"
            /\ result' = Raise("resolve", result.error)
            /\ requirements_file' =
                   FileAfterResolve(requirements_file, resolved_deps, FALSE)
            /\ resolutions_table' =
                   ResolutionsAfterResolve(resolutions_table, requirements_file,
                                           resolved_deps, FALSE)
            /\ UNCHANGED <<resolved_deps, todo>>
       ELSE /\ cmd' = "loop"
            /\ todo' = Tail(todo)
            /\ IF result.value = <<>>
               THEN UNCHANGED resolved_deps
               ELSE \E version_idx \in 1..Len(result.value) :
                        resolved_deps' =
                            [k \in DOMAIN resolved_deps \cup {package} |->
                                IF k = package THEN result.value[version_idx]
                                ELSE resolved_deps[k]]
            /\ UNCHANGED <<result, requirements_file, resolutions_table>>
    /\ UNCHANGED <<lines, snapshot, seen, index, dependencies, order, conflicts,
                   dep_graph, i, j, package, conflict, req_arg, report_arg, pc,
                   fetches, cache_calls, cache_ready, conflicts_table,
                   versions_table, last_store, now>>

\* lines 97-101: the loop is over
ResolveFinish ==
    /\ pc = "idle"
    /\ cmd = "loop"
    /\ todo = <<>>
    /\ cmd' = "none"
    /\ requirements_file' = FileAfterResolve(requirements_file, resolved_deps, TRUE)
    /\ resolutions_table' =
           ResolutionsAfterResolve(resolutions_table, requirements_file,
                                   resolved_deps, TRUE)
    /\ lines' = IF DOMAIN resolved_deps # {} /\ requirements_file.exists
                THEN requirements_file.lines ELSE lines
    /\ result' = IF DOMAIN resolved_deps # {} /\ ~requirements_file.exists
                 THEN Raise("resolve", Str(<<"Failed to update requirements.txt">>))
                 ELSE [op |-> "resolve", kind |-> "return"]
    /\ UNCHANGED <<resolved_deps, todo, snapshot, seen, index, dependencies, order,
                   conflicts, dep_graph, i, j, package, conflict, req_arg,
                   report_arg, pc, fetches, cache_calls, cache_ready,
                   conflicts_table, versions_table, last_store, now>>

\* the requirement lines of the family
LineA == Line("requirement", "a", <<GE(1)>>, FALSE)

LineB == Line("requirement", "b", <<GE(1)>>, TRUE)

LineC == Line("requirement", "c", <<GE(MaxVersion)>>, FALSE)

ResolveFiles ==
    {NoFile} \cup
    {[exists |-> TRUE, lines |-> l] :
        l \in { <<>>, <<LineA>>, <<LineA, LineC>>, <<LineC, LineA>>,
                <<LineA, LineB, LineC>>,
                <<Line("comment", "", <<>>, TRUE), LineB, LineC>> }}

ResolveIndexes ==
    {idx \in Indexes :
        /\ idx["a"] \in {Missing, Published({<<1>>}, <<>>),
                          Published({<<1>>}, <<Req("c", <<LT(MaxVersion)>>, "")>>)}
        /\ idx["b"] \in {Missing, Published({}, <<>>), Published({<<1>>}, <<>>)}}

InitResolve ==
    /\ index \in ResolveIndexes
    /\ requirements_file \in ResolveFiles
    /\ dependencies = EmptyDict
    /\ order = <<>>
    /\ package = ""
    /\ conflict = EmptyDict
    /\ req_arg = EmptyDict
    /\ report_arg = EmptyDict
    /\ Idle

NextResolve ==
    \/ ResolveStart
    \/ ResolveFindConflicts
    \/ Pass1Step
    \/ Pass1Done
    \/ Pass2Step
    \/ FindConflictsReturn
    \/ ResolveReport
    \/ ResolveNext
    \/ ResolveSelect
    \/ GetCompatibleVersionsCached
    \/ GetCompatibleVersionsFetch
    \/ GetCompatibleVersionsSelect
    \/ ResolveTake
    \/ ResolveFinish
    \/ Initialize

SpecResolve == InitResolve /\ [][NextResolve]_vars

OutputsUntouched ==
    /\ requirements_file = snapshot.file
    /\ resolutions_table = snapshot.resolutions

\* C18: while resolve is still working through the report, and after it
\* ended because get_compatible_versions (or anything else) raised,
\* requirements.txt and the table of resolutions are as they were when the
\* command began, also when versions had been chosen for some packages
C18_AllOrNothing ==
    /\ cmd # "none" => OutputsUntouched
    /\ result.op = "resolve" /\ result.kind = "raise" => OutputsUntouched

\* the command ended on the raise of an {error: message} entry after a
\* version had been chosen for another package
C18_Witness ==
    /\ cmd = "none"
    /\ result.op = "resolve"
    /\ result.kind = "raise"
    /\ DOMAIN resolved_deps # {}
    /\ "error" \in DOMAIN conflict
    /\ cache_ready
    /\ OutputsUntouched

C18_WitnessCompleted ==
    /\ cmd = "none"
    /\ result.op = "resolve"
    /\ result.kind = "return"
    /\ DOMAIN resolutions_table # {}
    /\ requirements_file # snapshot.file

-----------------------------------------------------------------------------
(* find_conflicts over a package index that changes between the calls *)

MemoIndexes ==
    {[p \in PackageNames |-> IF p = "a" THEN ea ELSE IF p = "b" THEN Missing ELSE ec] :
        ea \in {Published({<<1>>}, <<>>),
                Published({<<1>>}, <<Req("c", <<LT(MaxVersion)>>, "")>>)},
        ec \in {Missing, Published({<<1>>}, <<>>),
                Published({<<n>> : n \in 1..MaxVersion}, <<>>)}}

MemoRequests == {r \in Requests : "b" \notin DOMAIN r /\ "c" \in DOMAIN r}

\* releases are published or withdrawn, a package appears or disappears
IndexChange ==
    /\ pc = "idle"
    /\ index' \in MemoIndexes \ {index}
    /\ UNCHANGED <<cli, seen, dependencies, order, conflicts, dep_graph, i, j,
                   package, conflict, req_arg, report_arg, pc, result, fetches,
                   cache_calls, cache_ready, conflicts_table, versions_table,
                   last_store, now>>

InitMemo ==
    /\ index \in MemoIndexes
    /\ dependencies \in MemoRequests
    /\ order = SortKeys(DOMAIN dependencies)
    /\ package = ""
    /\ conflict = EmptyDict
    /\ req_arg = EmptyDict
    /\ report_arg = EmptyDict
    /\ requirements_file = NoFile
    /\ Idle

NextMemo ==
    \/ FindConflictsCall
    \/ Pass1Step
    \/ Pass1Done
    \/ Pass2Step
    \/ FindConflictsReturn
    \/ Initialize
    \/ IndexChange
    \/ Tick

SpecMemo == InitMemo /\ [][NextMemo]_vars

\* the last store_conflicts was made by find_conflicts for this request on
\* existing tables, no more than 24 hours ago
Memoized ==
    /\ last_store.called
    /\ last_store.ready
    /\ last_store.req = dependencies
    /\ now - last_store.at <= CacheExpiry

\* C19: within 24 hours of the store of a non-empty report R, no call of
\* find_conflicts for the same map goes past the cache lookup; a call that
\* has returned has returned R, and unless it is the call that stored R it
\* has fetched nothing, whatever the index is by now. A call that returned
\* an empty report left no row behind and was not served from the cache: it
\* fetched every constrained package of the request.
C19_ReportMemoized ==
    /\ Memoized =>
          /\ pc = "idle"
          /\ Returned =>
                /\ result.value = last_store.report
                /\ cache_calls = 1 => fetches = NoFetches
    /\ Returned /\ DOMAIN dependencies # {} /\ DOMAIN result.value = {} =>
          /\ ~Memoized
          /\ cache_get_conflicts(cache_ready, conflicts_table, dependencies, now)
                 = Absent
          /\ \A p \in DOMAIN dependencies :
                 dependencies[p] # <<>> => fetches[p] >= 1

\* a report with a direct conflict for "c" is returned from the cache, hours
\* after its store, although "c" can no longer be fetched
C19_Witness ==
    /\ Returned
    /\ Memoized
    /\ now > last_store.at
    /\ cache_calls = 1
    /\ fetches = NoFetches
    /\ "c" \in DOMAIN result.value
    /\ "direct" \in DOMAIN result.value["c"]
    /\ index["c"] = Missing

C19_WitnessEmpty ==
    /\ Returned
    /\ cache_ready
    /\ DOMAIN result.value = {}
    /\ seen["find_conflicts"]["miss"].op # "none"
    /\ fetches["c"] >= 1

====
